---------------------------- MODULE Spec2Model ----------------------------
(***************************************************************************)
(* Salesforce Pub/Sub CDC listener: SalesforcePubSubListener.listen /      *)
(* process (infrastructure/message_subscribers.py) on top of PubSub        *)
(* (infrastructure/util/PubSub.py) and the replay-id table                 *)
(* (infrastructure/sql_repositories.py, sql_tables.py, util/database.py).  *)
(*                                                                         *)
(* Threads: the listener thread runs listen(); every Subscribe call starts *)
(* one gRPC request-consumer thread that iterates fetch_req_stream().      *)
(* All of them share the single PubSub.semaphore.                          *)
(*                                                                         *)
(* The server is the environment.  Replay ids are stream positions         *)
(* 1..MaxPos, NoToken (0) is the empty replay id bytes('').  A stream      *)
(* delivers FetchResponses only after a FetchRequest was written on it;    *)
(* the client never checks a response against num_requested, so the size   *)
(* of a batch and its pending_num_requested are free.                      *)
(***************************************************************************)
EXTENDS Integers, Sequences, FiniteSets, TLC

(* ------------------------------ bounds --------------------------------- *)
MaxPos == 3
MaxEvents == 2
MaxBatches == 2
MaxCalls == 2
MaxSent == 2
MaxPuts == 3
MaxGets == 3
MaxAuth == 3
MaxFields == 4
MaxPermits == 1

(* ----------------------------- constants ------------------------------- *)
NoToken == 0
NumRequested == 1
SemaphoreInit_two == 1 + 1

\* PubSub.__init__: threading.Semaphore(1)
SemaphoreInit == 1

Modes == {"LATEST", "EARLIEST", "CUSTOM"}
Topics == {"portfolio", "account"}
CommitSettings == {"absent", "True"}
Outcomes == {"true", "false", "handler_exc", "decode_exc", "schema_exc"}

\* PubSub.__init__: self.metadata = None, self.session = None,
\* self.session_id = None
Unset == 0
NoMetadata == << >>
TenantId == 1
NewClient == [session |-> Unset, session_id |-> Unset, instance_url |-> Unset,
              metadata |-> NoMetadata, tenant_id |-> TenantId]

NoResponse == [status |-> "none", access_token |-> Unset, instance_url |-> Unset]
Tenants == {1, 2}

\* field names of a schema, in declared order
FieldNames == << "A", "B", "C", "D", "E", "F" >>
NoEvent == [none |-> TRUE]

\* ChangeEventHeader.changeType
ChangeTypes == {"CREATE", "UPDATE", "DELETE"}
NoMessage == [schema |-> << >>, header |-> FALSE, changedFields |-> 0,
              nulledFields |-> 0, changeType |-> "none"]
NoDecoded == [pc |-> "new", event |-> NoEvent, changed |-> {}, out |-> "none"]

\* PubSub.json_schema_dict = {}
EmptyDict == [i \in {} |-> << >>]
NoSchema == << >>
SchemaIds == {1, 2}

\* listener threads of one process that share the class attribute
Threads == {1, 2}

\* the schema id the events of the topic carry
TopicSchemaId == 1
NoBatch == [events |-> << >>, pending |-> 0, token |-> NoToken, before |-> NoToken]
NoCall == [mode |-> "LATEST", token |-> NoToken, hb |-> FALSE, read |-> FALSE,
           via |-> "none", stored |-> NoToken, events |-> 0]
NoRecord == [n |-> 0, ok |-> TRUE, pending |-> 0, token |-> NoToken, puts |-> 0,
             stored |-> FALSE, ret |-> "none", before |-> NoToken, after |-> NoToken]

VARIABLES
    startMode,   \* listen(mode=...)
    callerToken, \* listen(last_replay_id=...)
    hbConfigured,\* heartbeat_repo is not None
    commitCfg,   \* [coredb] commit in config.ini
    pc,          \* position of the listener thread
    mode,        \* local `mode` of listen()
    token,       \* local `last_replay_id` of listen()
    authCount,   \* calls of PubSub.auth() that succeeded
    hbFresh,     \* a heartbeat was written since the last Subscribe call
    readFresh,   \* the token was read since the last Subscribe call
    semaphore,   \* PubSub.semaphore value
    prod,        \* request-consumer thread of each Subscribe call
    sent,        \* FetchRequests written to the wire, in order
    inflight,    \* FetchRequests written since the last full batch delivery
    callNo,      \* number of Subscribe calls made so far
    open,        \* the latest Subscribe call is still active
    via,         \* how the listener came to the next Subscribe call
    cur,         \* record of the latest Subscribe call
    prev,        \* record of the Subscribe call before it
    cursor,      \* server side: last position delivered on the current call
    batch,       \* FetchResponse being processed
    idx,         \* loop index of process()
    success,     \* local `success` of process()
    outs,        \* outcome of each event of the current batch so far
    invoked,     \* events of the current batch passed to the handler, in order
    json_schema_dict, \* PubSub.json_schema_dict (class attribute)
    client,      \* session, session_id, instance_url, metadata of the PubSub object
    table,       \* committed rows << topic, replay_id >> of sf_replay_id
    lastPut,     \* per topic, the replay id of the latest create() that returned
    nPuts,       \* calls of create() so far
    got,         \* topic and result of the latest get()
    thr,         \* callers of get_schema_json: position, schema id, result
    rpcs,        \* per schema id, GetSchema RPCs made
    writes,      \* per schema id, assignments to json_schema_dict[id]
    nGets,       \* calls of get_schema_json started
    resp,        \* response of the login endpoint to the latest auth()
    prevResp,    \* its response to the auth() before that
    authCalls,   \* calls of auth() made on the client
    msg,         \* a decoded event message handed to deserialize()
    dec,         \* what deserialize() and the handler made of it
    streams,     \* per stub.Subscribe call, its arguments and its subscribe() call
    gens,        \* fetch_req_stream generator of each of these calls
    requests,    \* FetchRequests yielded to gRPC, in order
    permits,     \* PubSub.semaphore of the client used on its own
    committed,   \* latest replay id committed to sf_replay_id meanwhile
    rows,        \* committed replay ids of the topic in sf_replay_id
    last,        \* record of the latest batch process() has dealt with
    nBatches,    \* batches handed to process() so far
    handled,     \* positions whose handler returned true (or checkpointed before)
    delivered    \* positions handed to process()

cfg == << startMode, callerToken, hbConfigured, commitCfg >>
lstn == << mode, token, authCount >>
fresh == << hbFresh, readFresh >>
flow == << semaphore, prod, sent, inflight >>
calls == << callNo, open, via, cur, prev, cursor >>
proc == << batch, idx, success, outs, invoked >>
obs == << last, nBatches, handled, delivered >>
pubsub == << json_schema_dict, client >>
listener == << cfg, pc, lstn, fresh, flow, calls, proc, rows, obs >>
store == << table, lastPut, nPuts, got >>
schema == << thr, rpcs, writes, nGets >>
login == << resp, prevResp, authCalls >>
decode == << msg, dec >>
fetch == << streams, gens, requests, permits, committed >>
lib == << store, schema, login, decode, fetch >>

vars == << listener, pubsub, lib >>

Range(f) == { f[i] : i \in DOMAIN f }

(* ----------------------------- the store ------------------------------- *)
RECURSIVE SetMax(_)
SetMax(S) == IF S = {} THEN NoToken
             ELSE LET x == CHOOSE y \in S : TRUE
                      m == SetMax(S \ {x})
                  IN IF x > m THEN x ELSE m

\* COREDBSFReplayIDTable.latest_replay_id: max(replay_id) or None
latest_replay_id(rs) == SetMax(rs)

\* SalesforcePubSubListener.get_latest_replay_id: None becomes bytes('')
get_latest_replay_id(rs) ==
    IF latest_replay_id(rs) # NoToken THEN latest_replay_id(rs) ELSE NoToken

\* BaseDB.execute_write: the value read from the config is used as a truth
\* value; fallback=False when the option is absent
Commits(cfg_commit) == cfg_commit # "absent"

\* COREDBReplayIDRepository.create -> execute_insert -> execute_write:
\* the insert is rolled back unless the commit setting is there
execute_insert(rs, t, cfg_commit) == IF Commits(cfg_commit) THEN rs \cup {t} ELSE rs

\* COREDBSFReplayIDTable.read(topic=...): the replay ids of one topic
TopicRows(tb, topic) == { r[2] : r \in { x \in tb : x[1] = topic } }

\* COREDBReplayIDRepository.get
get(tb, topic) == latest_replay_id(TopicRows(tb, topic))

\* COREDBReplayIDRepository.create: the table after the insert
create(tb, topic, t, cfg_commit) ==
    { x \in tb : x[1] # topic } \cup
    { << topic, id >> : id \in execute_insert(TopicRows(tb, topic), t, cfg_commit) }

(* --------------------------- code fragments ---------------------------- *)
CanAcquire_nonblocking(s) == TRUE

\* threading.Semaphore.acquire(): blocks while the value is 0
CanAcquire(s) == s > 0

HeadRaises_anyFull(b) == b.pending = 0

HeadRaises_empty(b) == Len(b.events) = 0

\* process() lines 97-103: the branch that releases the permit names the
\* undefined global `pubsub` (only the class PubSub is imported), so
\* reaching it raises NameError
HeadRaises(b) == Len(b.events) = 0 /\ b.pending = 0

MarksFailure_falseOnly(out) == out = "false"

\* process() lines 111-116: what makes `success` False
MarksFailure(out) == out # "true"

EventAt_reversed(b, i) == b.events[Len(b.events) + 1 - i]

\* process() line 107: `for event_msg in event_msg_batch.events`
EventAt(b, i) == b.events[i]

LoopDone_early(b, i) == i > Len(b.events) - 1

\* process() lines 107, 118: the code after the `for` runs when the
\* iteration over the events is exhausted
LoopDone(b, i) == i > Len(b.events)

\* process() lines 110-111: the handler is called when deserialize() returned
Dispatches(out) == out \notin {"decode_exc", "schema_exc"}

NextSuccess_latest(succ, out) == ~MarksFailure(out)

\* process() lines 112-116: `success` is only ever set to False in the loop
NextSuccess(succ, out) == IF MarksFailure(out) THEN FALSE ELSE succ

AfterPut_raises(ok) == IF ok THEN "recv" ELSE "raised"

\* process() lines 119-128: an exception of save_replay_id is caught and
\* logged, process() returns either way
AfterPut(ok) == "recv"

Session_always(cl, new) == new

\* PubSub.auth() lines 103-104: the session is created once
Session(cl, new) == IF cl.session = Unset THEN new ELSE cl.session

\* PubSub.auth() lines 117-119
AuthRaises(r) == r.status # "OK"

auth_eager(cl, r, new) ==
    [cl EXCEPT !.session = Session(cl, new),
               !.session_id = r.access_token,
               !.instance_url = r.instance_url,
               !.metadata = << r.access_token, r.instance_url, cl.tenant_id >>]

\* PubSub.auth(): the state of the client after the call, for response r
auth(cl, r, new) ==
    IF AuthRaises(r)
      THEN [cl EXCEPT !.session = Session(cl, new)]
      ELSE [cl EXCEPT !.session = Session(cl, new),
                      !.session_id = r.access_token,
                      !.instance_url = r.instance_url,
                      !.metadata = << r.access_token, r.instance_url, cl.tenant_id >>]

\* what the login endpoint can answer
Responses_login ==
    { [status |-> st, access_token |-> a, instance_url |-> u] :
        st \in {"OK", "DENIED"}, a \in {1, 2}, u \in {1, 2} }

\* the responses of the login endpoint during listen()
LoginResponses == { [status |-> st, access_token |-> 1, instance_url |-> 1] :
                      st \in {"OK", "DENIED"} }

CacheMiss_always(d, id) == TRUE

\* PubSub.get_schema_json() line 259
CacheMiss(d, id) == IF id \in DOMAIN d THEN d[id] = NoSchema ELSE TRUE

\* the GetSchema RPC: the schema of an id is fixed for good
GetSchema(id) == << "schema_json", id >>

\* PubSub.get_schema_json() line 261
Populate(d, id, json) ==
    [i \in DOMAIN d \cup {id} |-> IF i = id THEN json ELSE d[i]]

get_schema_json_cache_marksFailure(d, id, out) ==
    IF ~CacheMiss(d, id) THEN d
    ELSE IF out = "schema_exc" THEN Populate(d, id, NoSchema)
    ELSE Populate(d, id, GetSchema(id))

\* PubSub.get_schema_json() lines 259-261: the cache after the call made for
\* an event; the assignment is not reached when the RPC raises
get_schema_json_cache(d, id, out) ==
    IF CacheMiss(d, id) /\ out # "schema_exc"
      THEN Populate(d, id, GetSchema(id))
      ELSE d

AfterRpcError_reauth(code) == IF code = "other" THEN "auth" ELSE "heartbeat"

\* listen() lines 149-163: after the except clause the loop goes round to
\* save_heartbeat(); auth() is outside the loop
AfterRpcError(code) == "heartbeat"

\* ChangeEventHeaderUtility.process_bitmap: the names of the fields whose
\* bit is set, bit i standing for field i of the schema's declared order;
\* read off from the low end of the bitmap
RECURSIVE process_bitmap(_, _)
process_bitmap(fields, bitmap) ==
    IF Len(fields) = 0 \/ bitmap = 0 THEN {}
    ELSE (IF bitmap % 2 = 1 THEN {Head(fields)} ELSE {})
         \cup process_bitmap(Tail(fields), bitmap \div 2)

changed_fields_nulled(m) == process_bitmap(m.schema, m.nulledFields)

\* deserialize() line 78
changed_fields(m) == process_bitmap(m.schema, m.changedFields)

deserialize_byChangeType(m) ==
    IF m.header
      THEN [cn |-> IF m.changeType = "UPDATE" THEN "PortfolioUpdatedEvent"
                   ELSE IF m.changeType = "DELETE" THEN "PortfolioDeletedEvent"
                   ELSE "PortfolioCreatedEvent",
            portfolio |-> Range(m.schema)]
      ELSE NoEvent

\* deserialize() lines 75-89: the event for a message with a
\* ChangeEventHeader, a PortfolioCreatedEvent of all fields but the header
\* whatever its changeType (read at line 79 and not used), and None
\* (falling off the end) for a message without
deserialize(m) ==
    IF m.header
      THEN [cn |-> "PortfolioCreatedEvent", portfolio |-> Range(m.schema)]
      ELSE NoEvent

\* process() line 111 with PortfolioEventHandler.handle: the log line reads
\* event.portfolio, which raises for None; the result is a coin flip
HandleOutcomes(ev) ==
    IF ev = NoEvent THEN {"handler_exc"} ELSE {"true", "false"}

ShouldSave_always(succ) == TRUE

ShouldSave_inverted(succ) == ~succ

\* process() line 120: `if success:`
ShouldSave(succ) == succ

ResumeToken_stale(rs, old) == old

\* listen() line 153: last_replay_id = self.get_latest_replay_id()
ResumeToken(rs, old) == get_latest_replay_id(rs)

\* listen() lines 131-135
SelectedToken(m, ct, rs) ==
    IF m = "CUSTOM" /\ ct = NoToken THEN get_latest_replay_id(rs) ELSE ct

SelectedMode_asRequested(m, ct, rs) == m

\* listen() lines 131-140
SelectedMode(m, ct, rs) ==
    IF m = "CUSTOM" /\ SelectedToken(m, ct, rs) = NoToken THEN "EARLIEST" ELSE m

\* PubSub.make_fetch_request
make_fetch_request(c, m, t, n) == [call |-> c, mode |-> m, token |-> t, num |-> n]

\* PubSub.make_fetch_request lines 190-196: the FetchRequest of the proto
FetchRequest(tp, m, t, n) ==
    [topic_name |-> tp, replay_preset |-> m, replay_id |-> t, num_requested |-> n]

fetch_req_stream_committed(a) ==
    FetchRequest(a.topic, a.replay_type, committed, a.num_requested)

\* fetch_req_stream() line 208: every request is made from the arguments
\* the generator was created with
fetch_req_stream(a) ==
    FetchRequest(a.topic, a.replay_type, a.replay_id, a.num_requested)

\* the arguments subscribe() may be called with
SubscribeArgs ==
    [topic : Topics, replay_type : Modes, replay_id : 0..MaxPos,
     num_requested : {NumRequested}]

(* ---------------------------- derived state ---------------------------- *)
SentOn(c) == { i \in 1..Len(sent) : sent[i].call = c }

AllTrue(os) == \A i \in DOMAIN os : os[i] = "true"

(* ------------------------------- Init ---------------------------------- *)
\* the repository used on its own: nothing put, nothing read yet
StoreIdle ==
    /\ table = {}
    /\ lastPut = [tp \in Topics |-> NoToken]
    /\ nPuts = 0
    /\ got = [topic |-> "none", value |-> NoToken]

\* no thread is inside get_schema_json
SchemaIdle ==
    /\ thr = [t \in Threads |-> [pc |-> "idle", id |-> 1, hit |-> FALSE, ret |-> NoSchema]]
    /\ rpcs = [id \in SchemaIds |-> 0]
    /\ writes = [id \in SchemaIds |-> 0]
    /\ nGets = 0

\* auth() has not been called on its own
LoginIdle == resp = NoResponse /\ prevResp = NoResponse /\ authCalls = 0

\* no message is being decoded on its own
DecodeIdle == msg = NoMessage /\ dec = NoDecoded

\* subscribe() has not been called on its own
FetchIdle ==
    /\ streams = << >> /\ gens = << >> /\ requests = << >>
    /\ permits = SemaphoreInit /\ committed = NoToken

LibIdle == StoreIdle /\ SchemaIdle /\ LoginIdle /\ DecodeIdle /\ FetchIdle

Init ==
    /\ LibIdle
    /\ startMode \in Modes
    /\ callerToken \in IF startMode = "CUSTOM" THEN {NoToken, 1} ELSE {NoToken}
    /\ hbConfigured \in BOOLEAN
    /\ commitCfg \in CommitSettings
    /\ pc = "select_mode"
    /\ mode = startMode
    /\ token = callerToken
    /\ authCount = 0
    /\ hbFresh = FALSE
    /\ readFresh = FALSE
    /\ semaphore = SemaphoreInit
    /\ prod = [c \in 1..MaxCalls |-> "none"]
    /\ sent = << >>
    /\ inflight = 0
    /\ callNo = 0
    /\ open = FALSE
    /\ via = "initial"
    /\ cur = NoCall
    /\ prev = NoCall
    /\ cursor = 0
    /\ batch = NoBatch
    /\ idx = 0
    /\ success = TRUE
    /\ outs = << >>
    /\ invoked = << >>
    /\ json_schema_dict = EmptyDict
    /\ client = NewClient
    /\ rows \in {{}, {2}}
    /\ last = NoRecord
    /\ nBatches = 0
    /\ handled = 1..SetMax(rows)
    /\ delivered = {}

(* ------------------------- listener thread ----------------------------- *)
\* listen() lines 131-140: SELECT_MODE
SelectMode ==
    /\ pc = "select_mode"
    /\ token' = SelectedToken(mode, callerToken, rows)
    /\ mode' = SelectedMode(mode, callerToken, rows)
    /\ pc' = "auth"
    /\ UNCHANGED << cfg, lib, pubsub, authCount, fresh, flow, calls, proc, rows, obs >>

\* listen() line 143, PubSub.auth(): a non-OK response raises SalesforceError
Auth ==
    /\ pc = "auth"
    /\ \E r \in LoginResponses :
          /\ client' = auth(client, r, 1)
          /\ IF AuthRaises(r) THEN pc' = "raised" /\ authCount' = authCount
                               ELSE pc' = "heartbeat" /\ authCount' = authCount + 1
    /\ UNCHANGED << cfg, lib, json_schema_dict, mode, token, fresh, flow, calls, proc,
                    rows, obs >>

\* listen() line 152, save_heartbeat(): a failed upsert raises out of listen()
SaveHeartbeat ==
    /\ pc = "heartbeat"
    /\ \E ok \in BOOLEAN :
          IF ~hbConfigured THEN ok /\ pc' = "get_token" /\ hbFresh' = hbFresh
          ELSE IF ok THEN pc' = "get_token" /\ hbFresh' = TRUE
          ELSE pc' = "raised" /\ hbFresh' = hbFresh
    /\ UNCHANGED << cfg, lib, pubsub, lstn, readFresh, flow, calls, proc, rows, obs >>

\* listen() line 153; a failed read raises out of listen()
GetToken ==
    /\ pc = "get_token"
    /\ \E ok \in BOOLEAN :
          IF ok THEN /\ token' = ResumeToken(rows, token)
                     /\ readFresh' = TRUE
                     /\ pc' = "subscribe"
                ELSE /\ pc' = "raised"
                     /\ UNCHANGED << token, readFresh >>
    /\ UNCHANGED << cfg, lib, pubsub, mode, authCount, hbFresh, flow, calls, proc, rows, obs >>

\* where the server starts a subscription
StartCursors(m, t) ==
    IF m = "CUSTOM" THEN {t}
    ELSE IF m = "EARLIEST" THEN {0}
    ELSE 1..MaxPos

\* PubSub.subscribe() lines 292-296: stub.Subscribe(fetch_req_stream(...));
\* gRPC starts the thread that consumes the request iterator
Subscribe ==
    /\ pc = "subscribe"
    /\ callNo < MaxCalls
    /\ callNo' = callNo + 1
    /\ open' = TRUE
    /\ prod' = [prod EXCEPT ![callNo + 1] = "waiting"]
    /\ cursor' \in StartCursors(mode, token)
    /\ prev' = cur
    /\ cur' = [mode |-> mode, token |-> token, hb |-> hbFresh,
               read |-> readFresh, via |-> via,
               stored |-> get_latest_replay_id(rows), events |-> 0]
    /\ hbFresh' = FALSE
    /\ readFresh' = FALSE
    /\ pc' = "recv"
    /\ UNCHANGED << cfg, lib, pubsub, lstn, semaphore, sent, inflight, via, proc, rows, obs >>

(* ---------------------- request-consumer threads ----------------------- *)
\* fetch_req_stream() lines 204-208 on the active call: acquire the permit,
\* yield the FetchRequest built from the arguments of that call; gRPC writes
\* it to the stream
ProducerSend(c) ==
    /\ prod[c] = "waiting"
    /\ c = callNo /\ open
    /\ CanAcquire(semaphore)
    /\ Len(sent) < MaxSent
    /\ semaphore' = semaphore - 1
    /\ sent' = Append(sent, make_fetch_request(c, cur.mode, cur.token, NumRequested))
    /\ inflight' = inflight + 1
    /\ UNCHANGED << cfg, lib, pubsub, pc, lstn, fresh, prod, calls, proc, rows, obs >>

\* fetch_req_stream() of a call that has ended: its thread is still blocked
\* in acquire(); when it gets the permit gRPC finds the call done, drops the
\* request and ends the thread
ProducerStale(c) ==
    /\ prod[c] = "waiting"
    /\ ~(c = callNo /\ open)
    /\ CanAcquire(semaphore)
    /\ semaphore > -MaxSent
    /\ semaphore' = semaphore - 1
    /\ prod' = [prod EXCEPT ![c] = "exited"]
    /\ UNCHANGED << cfg, lib, pubsub, pc, lstn, fresh, sent, inflight, calls, proc, rows, obs >>

(* ------------------------------ the stream ----------------------------- *)
\* the server answers a subscription it knows: a FetchRequest was written
\* on this call, and a CUSTOM request carried a replay id
Subscribed == /\ open
              /\ SentOn(callNo) # {}
              /\ ~(cur.mode = "CUSTOM" /\ cur.token = NoToken)

\* the FetchResponses the server may send next: k events after the cursor,
\* or a keepalive (no events) carrying the latest replay id
Responses ==
    { [events |-> [i \in 1..k |-> cursor + i], pending |-> p, token |-> cursor + k] :
        k \in { j \in 0..MaxEvents : cursor + j <= MaxPos /\ cursor + j >= 1 },
        p \in {0, 1} }

\* PubSub.subscribe() lines 297-298: `for event in sub_stream: callback(event)`
Recv ==
    /\ pc = "recv"
    /\ Subscribed
    /\ nBatches < MaxBatches
    /\ \E b \in Responses :
          /\ batch' = [events |-> b.events, pending |-> b.pending,
                        token |-> b.token,
                        before |-> get_latest_replay_id(rows)]
          /\ cursor' = b.token
          /\ delivered' = delivered \cup Range(b.events)
          /\ inflight' = IF b.pending = 0 THEN 0 ELSE inflight
          /\ cur' = [cur EXCEPT !.events = @ + Len(b.events)]
    /\ nBatches' = nBatches + 1
    /\ pc' = "process"
    /\ UNCHANGED << cfg, lib, pubsub, lstn, fresh, semaphore, prod, sent, callNo, open, via,
                    prev, idx, success, outs, invoked, rows, last, handled >>

\* the record process() leaves behind for a batch
Done(ret) == [n |-> Len(batch.events), ok |-> AllTrue(outs), pending |-> batch.pending,
              token |-> batch.token, puts |-> 0, stored |-> FALSE, ret |-> ret,
              before |-> batch.before, after |-> get_latest_replay_id(rows)]

\* process() lines 97-106.  The NameError is no grpc.RpcError: it leaves
\* process(), subscribe() and listen()
ProcessHead ==
    /\ pc = "process"
    /\ IF HeadRaises(batch)
         THEN /\ pc' = "raised"
              /\ open' = FALSE
              /\ last' = Done("raised")
              /\ batch' = NoBatch
              /\ UNCHANGED << idx, success, outs, invoked >>
         ELSE /\ pc' = "loop"
              /\ success' = TRUE
              /\ idx' = 1
              /\ outs' = << >>
              /\ invoked' = << >>
              /\ UNCHANGED << open, last, batch >>
    /\ UNCHANGED << cfg, lib, pubsub, lstn, fresh, flow, callNo, via, cur, prev, cursor,
                    rows, nBatches, handled, delivered >>

\* process() lines 107-116: one iteration of the loop over batch.events
ProcessEvent ==
    /\ pc = "loop"
    /\ ~LoopDone(batch, idx)
    /\ \E out \in Outcomes :
          /\ out = "schema_exc" => CacheMiss(json_schema_dict, TopicSchemaId)
          /\ json_schema_dict' =
                get_schema_json_cache(json_schema_dict, TopicSchemaId, out)
          /\ outs' = Append(outs, out)
          /\ invoked' = IF Dispatches(out) THEN Append(invoked, EventAt(batch, idx))
                                           ELSE invoked
          /\ success' = NextSuccess(success, out)
          /\ handled' = IF out = "true" THEN handled \cup {EventAt(batch, idx)}
                                        ELSE handled
    /\ idx' = idx + 1
    /\ UNCHANGED << cfg, lib, client, pc, lstn, fresh, flow, calls, batch, rows, last,
                    nBatches, delivered >>

\* process() lines 119-122, 126-128: save_replay_id; an exception of the
\* insert is logged and swallowed
SaveReplayId ==
    /\ pc = "loop"
    /\ LoopDone(batch, idx)
    /\ ShouldSave(success)
    /\ \E ok \in BOOLEAN :
          /\ rows' = IF ok THEN execute_insert(rows, batch.token, commitCfg)
                           ELSE rows
          /\ last' = [Done("returned") EXCEPT
                         !.puts = 1,
                         !.stored = ok /\ Commits(commitCfg),
                         !.after = get_latest_replay_id(rows')]
          /\ pc' = AfterPut(ok)
    /\ batch' = NoBatch
    /\ idx' = 0 /\ success' = TRUE /\ outs' = << >> /\ invoked' = << >>
    /\ UNCHANGED << cfg, lib, pubsub, lstn, fresh, flow, calls, nBatches, handled, delivered >>

\* process() lines 123-125: the batch failed, the replay id is not saved
WithholdReplayId ==
    /\ pc = "loop"
    /\ LoopDone(batch, idx)
    /\ ~ShouldSave(success)
    /\ last' = Done("returned")
    /\ batch' = NoBatch
    /\ idx' = 0 /\ success' = TRUE /\ outs' = << >> /\ invoked' = << >>
    /\ pc' = "recv"
    /\ UNCHANGED << cfg, lib, pubsub, lstn, fresh, flow, calls, rows, nBatches, handled,
                    delivered >>

(* --------------------------- end of a stream --------------------------- *)
\* listen() lines 157-163: grpc.RpcError out of subscribe() is caught, logged
\* by status, and the loop goes round after the sleep
RpcError(code) ==
    /\ pc = "recv"
    /\ open
    /\ open' = FALSE
    /\ via' = code
    /\ pc' = AfterRpcError(code)
    /\ UNCHANGED << cfg, lib, pubsub, lstn, fresh, flow, callNo, cur, prev, cursor, proc,
                    rows, obs >>

DeadlineExceeded == RpcError("deadline")

OtherRpcError == RpcError("other")

\* PubSub.subscribe() line 291: the server ends the stream without error,
\* the `for` ends and `while True` calls Subscribe again with the arguments
\* subscribe() was given
StreamEnd ==
    /\ pc = "recv"
    /\ open
    /\ open' = FALSE
    /\ via' = "stream_end"
    /\ pc' = "subscribe"
    /\ UNCHANGED << cfg, lib, pubsub, lstn, fresh, flow, callNo, cur, prev, cursor, proc,
                    rows, obs >>

Next ==
    \/ SelectMode
    \/ Auth
    \/ SaveHeartbeat
    \/ GetToken
    \/ Subscribe
    \/ \E c \in 1..MaxCalls : ProducerSend(c)
    \/ \E c \in 1..MaxCalls : ProducerStale(c)
    \/ Recv
    \/ ProcessHead
    \/ ProcessEvent
    \/ SaveReplayId
    \/ WithholdReplayId
    \/ DeadlineExceeded
    \/ OtherRpcError
    \/ StreamEnd

Spec == Init /\ [][Next]_vars

(* ================== the replay-id repository on its own ================ *)
\* the listener is not running
ListenerIdle ==
    /\ startMode = "LATEST" /\ callerToken = NoToken /\ hbConfigured = FALSE
    /\ pc = "idle" /\ mode = "LATEST" /\ token = NoToken /\ authCount = 0
    /\ hbFresh = FALSE /\ readFresh = FALSE
    /\ semaphore = SemaphoreInit /\ prod = [c \in 1..MaxCalls |-> "none"]
    /\ sent = << >> /\ inflight = 0
    /\ callNo = 0 /\ open = FALSE /\ via = "initial"
    /\ cur = NoCall /\ prev = NoCall /\ cursor = 0
    /\ batch = NoBatch /\ idx = 0 /\ success = TRUE
    /\ outs = << >> /\ invoked = << >>
    /\ rows = {} /\ last = NoRecord /\ nBatches = 0
    /\ handled = {} /\ delivered = {}

PubSubIdle == json_schema_dict = EmptyDict /\ client = NewClient

InitStore ==
    /\ ListenerIdle
    /\ commitCfg \in CommitSettings
    /\ PubSubIdle
    /\ LibIdle

\* COREDBReplayIDRepository.create(topic, replay_id); a failed insert raises
\* and commits nothing
Create ==
    /\ nPuts < MaxPuts
    /\ \E tp \in Topics, t \in 1..MaxPos, ok \in BOOLEAN :
          /\ table' = IF ok THEN create(table, tp, t, commitCfg) ELSE table
          /\ lastPut' = IF ok THEN [lastPut EXCEPT ![tp] = t] ELSE lastPut
    /\ nPuts' = nPuts + 1
    /\ UNCHANGED << listener, fetch, login, decode, pubsub, schema, got >>

\* COREDBReplayIDRepository.get(topic)
Get ==
    /\ \E tp \in Topics : got' = [topic |-> tp, value |-> get(table, tp)]
    /\ UNCHANGED << listener, fetch, login, decode, pubsub, schema, table, lastPut, nPuts >>

NextStore == Create \/ Get

SpecStore == InitStore /\ [][NextStore]_vars

(* ============== get_schema_json called from several threads ============ *)
InitSchema ==
    /\ ListenerIdle
    /\ commitCfg = "absent"
    /\ PubSubIdle
    /\ LibIdle

\* a listener thread enters get_schema_json(schema_id)
CallGetSchema(t) ==
    /\ thr[t].pc = "idle"
    /\ nGets < MaxGets
    /\ \E id \in SchemaIds :
          thr' = [thr EXCEPT ![t] = [pc |-> "check", id |-> id, hit |-> FALSE,
                                     ret |-> NoSchema]]
    /\ nGets' = nGets + 1
    /\ UNCHANGED << listener, fetch, login, decode, pubsub, store, rpcs, writes >>

\* get_schema_json() line 259: the test of the cache
CheckCache(t) ==
    /\ thr[t].pc = "check"
    /\ thr' = [thr EXCEPT ![t].pc = IF CacheMiss(json_schema_dict, thr[t].id)
                                      THEN "rpc" ELSE "return",
                          ![t].hit = ~CacheMiss(json_schema_dict, thr[t].id)]
    /\ UNCHANGED << listener, fetch, login, decode, pubsub, store, rpcs, writes, nGets >>

\* get_schema_json() line 260: stub.GetSchema(...); an RpcError leaves the
\* function
CallRpc(t) ==
    /\ thr[t].pc = "rpc"
    /\ rpcs' = [rpcs EXCEPT ![thr[t].id] = @ + 1]
    /\ \E ok \in BOOLEAN :
          thr' = IF ok THEN [thr EXCEPT ![t].pc = "store",
                                        ![t].ret = GetSchema(thr[t].id)]
                       ELSE [thr EXCEPT ![t].pc = "idle", ![t].ret = << "raised" >>]
    /\ UNCHANGED << listener, fetch, login, decode, pubsub, store, writes, nGets >>

\* get_schema_json() line 261: self.json_schema_dict[schema_id] = res.schema_json
StoreSchema(t) ==
    /\ thr[t].pc = "store"
    /\ json_schema_dict' = Populate(json_schema_dict, thr[t].id, thr[t].ret)
    /\ writes' = [writes EXCEPT ![thr[t].id] = @ + 1]
    /\ thr' = [thr EXCEPT ![t].pc = "return"]
    /\ UNCHANGED << listener, fetch, login, decode, client, store, rpcs, nGets >>

\* get_schema_json() line 263: return self.json_schema_dict[schema_id]
ReturnSchema(t) ==
    /\ thr[t].pc = "return"
    /\ thr' = [thr EXCEPT ![t].pc = "idle", ![t].ret = json_schema_dict[thr[t].id]]
    /\ UNCHANGED << listener, fetch, login, decode, pubsub, store, rpcs, writes, nGets >>

NextSchema ==
    \/ \E t \in Threads : CallGetSchema(t)
    \/ \E t \in Threads : CheckCache(t)
    \/ \E t \in Threads : CallRpc(t)
    \/ \E t \in Threads : StoreSchema(t)
    \/ \E t \in Threads : ReturnSchema(t)

SpecSchema == InitSchema /\ [][NextSchema]_vars

(* ======================= auth() called repeatedly ====================== *)
InitAuth ==
    /\ ListenerIdle
    /\ commitCfg = "absent"
    /\ json_schema_dict = EmptyDict
    /\ client \in { [NewClient EXCEPT !.tenant_id = tn] : tn \in Tenants }
    /\ LibIdle

\* one call of PubSub.auth(); requests.Session() gives a session not seen
\* before
AuthCall ==
    /\ authCalls < MaxAuth
    /\ \E r \in Responses_login :
          /\ client' = auth(client, r, authCalls + 1)
          /\ resp' = r
    /\ prevResp' = resp
    /\ authCalls' = authCalls + 1
    /\ UNCHANGED << listener, fetch, json_schema_dict, store, schema, decode >>

NextAuth == AuthCall

SpecAuth == InitAuth /\ [][NextAuth]_vars

(* ==================== deserialize() on one message ===================== *)
\* the decoded messages: a schema of up to MaxFields fields, with or without
\* a ChangeEventHeader, whose bitmaps are numbers below 2^(number of fields)
\* and whose changeType is one of ChangeTypes
Messages ==
    { [schema |-> SubSeq(FieldNames, 1, n), header |-> h[1], changedFields |-> b,
       nulledFields |-> z, changeType |-> h[2]] :
        n \in 0..MaxFields,
        h \in ({TRUE} \X ChangeTypes) \cup {<< FALSE, "none" >>},
        b \in 0..(2^MaxFields - 1), z \in {0, 1} }

InitDecode ==
    /\ ListenerIdle
    /\ commitCfg = "absent"
    /\ PubSubIdle
    /\ StoreIdle /\ SchemaIdle /\ LoginIdle /\ FetchIdle
    /\ msg \in { m \in Messages : m.changedFields < 2^Len(m.schema) }
    /\ dec = NoDecoded

\* deserialize() lines 68-89
Deserialize ==
    /\ dec.pc = "new"
    /\ dec' = [dec EXCEPT !.pc = "decoded",
                          !.event = deserialize(msg),
                          !.changed = IF msg.header THEN changed_fields(msg) ELSE {}]
    /\ UNCHANGED << listener, fetch, pubsub, store, schema, login, msg >>

\* process() lines 111-116: the handler is called with what deserialize()
\* returned
Handle ==
    /\ dec.pc = "decoded"
    /\ \E out \in HandleOutcomes(dec.event) :
          dec' = [dec EXCEPT !.pc = "handled", !.out = out]
    /\ UNCHANGED << listener, fetch, pubsub, store, schema, login, msg >>

NextDecode == Deserialize \/ Handle

SpecDecode == InitDecode /\ [][NextDecode]_vars

(* ============ subscribe() and fetch_req_stream() on their own ========== *)
InitFetch ==
    /\ ListenerIdle
    /\ commitCfg = "True"
    /\ PubSubIdle
    /\ LibIdle

\* PubSub.subscribe(topic, replay_type, replay_id, num_requested, ...) is
\* called: lines 292-296 make the generator from the arguments and hand it
\* to stub.Subscribe.  listen() lines 153-154 call it again after an error
\* with the same topic and mode and the replay id read from the store
CallSubscribe ==
    /\ Len(streams) < MaxCalls
    /\ \E a \in SubscribeArgs :
          /\ Len(streams) >= 1 =>
                /\ a.topic = streams[Len(streams)].args.topic
                /\ a.replay_type = streams[Len(streams)].args.replay_type
                /\ a.replay_id = committed
          /\ streams' = Append(streams,
                [args |-> a,
                 invocation |-> IF Len(streams) = 0 THEN 1
                                ELSE streams[Len(streams)].invocation + 1])
    /\ gens' = Append(gens, "waiting")
    /\ UNCHANGED << listener, pubsub, store, schema, login, decode,
                    requests, permits, committed >>

\* subscribe() line 291: the stream ended without error, `while True` hands
\* a new generator made from the same arguments to stub.Subscribe
Resubscribe ==
    /\ Len(streams) >= 1 /\ Len(streams) < MaxCalls
    /\ streams' = Append(streams, streams[Len(streams)])
    /\ gens' = Append(gens, "waiting")
    /\ UNCHANGED << listener, pubsub, store, schema, login, decode,
                    requests, permits, committed >>

\* fetch_req_stream() lines 204-208 of the active call: acquire, then yield
\* the request
Yield ==
    /\ Len(streams) >= 1
    /\ gens[Len(gens)] = "waiting"
    /\ CanAcquire(permits)
    /\ Len(requests) < MaxSent
    /\ permits' = permits - 1
    /\ requests' = Append(requests,
                          [call |-> Len(streams),
                           req |-> fetch_req_stream(streams[Len(streams)].args),
                           stored |-> committed])
    /\ UNCHANGED << listener, pubsub, store, schema, login, decode,
                    streams, gens, committed >>

\* fetch_req_stream() of a call that has ended: the generator gets the
\* permit, gRPC drops what it yields and the thread ends
YieldStale ==
    /\ \E c \in 1..(Len(gens) - 1) :
          /\ gens[c] = "waiting"
          /\ gens' = [gens EXCEPT ![c] = "exited"]
    /\ CanAcquire(permits)
    /\ permits' = permits - 1
    /\ UNCHANGED << listener, pubsub, store, schema, login, decode,
                    streams, requests, committed >>

\* PubSub.release_subscription_semaphore() lines 172-176
ReleaseSemaphore ==
    /\ permits < MaxPermits
    /\ permits' = permits + 1
    /\ UNCHANGED << listener, pubsub, store, schema, login, decode,
                    streams, gens, requests, committed >>

\* a checkpoint is committed for the topic while the call is active, which
\* has sent a request and been answered with a batch: save_replay_id ->
\* create, read back as latest_replay_id
Checkpoint ==
    /\ Len(streams) >= 1
    /\ \E i \in DOMAIN requests : requests[i].call = Len(streams)
    /\ \E t \in 1..MaxPos :
          /\ latest_replay_id(execute_insert({committed}, t, commitCfg)) # committed
          /\ committed' = latest_replay_id(execute_insert({committed}, t, commitCfg))
    /\ UNCHANGED << listener, pubsub, store, schema, login, decode,
                    streams, gens, requests, permits >>

NextFetch ==
    \/ CallSubscribe
    \/ Resubscribe
    \/ Yield
    \/ YieldStale
    \/ ReleaseSemaphore
    \/ Checkpoint

SpecFetch == InitFetch /\ [][NextFetch]_vars

(* ======================= checkpointing: C1 - C4 ======================== *)
\* process() has returned from the batch recorded in `last`
Returned == last.ret = "returned"

\* C1 as stated, for a store that is configured to commit: for every batch
\* process() has returned from, the batch's latestReplayToken was persisted
\* if and only if every event of the batch was decoded and handled
\* successfully.
C1_PersistedIffAllHandled ==
    Commits(commitCfg) /\ Returned => (last.stored <=> last.ok)

\* C1 amended: a batch's latestReplayToken is persisted only if every event
\* of the batch was decoded and handled successfully.
C1_PersistedOnlyIfAllHandled == last.stored => last.ok

C1_Witness ==
    /\ last.stored /\ last.n >= 2
    /\ delivered \ handled # {}

\* C2: the persisted checkpoint never covers an event that was delivered
\* and whose handling has not succeeded.
C2_CheckpointCoversOnlyHandled ==
    \A p \in delivered : p <= get_latest_replay_id(rows) => p \in handled

\* C3: a batch with a handler failure or a decode error leaves the stored
\* value as it was before the batch, and no put is issued.
C3_FailedBatchLeavesStore ==
    ~last.ok => last.puts = 0 /\ last.after = last.before

C3_Witness ==
    /\ ~last.ok /\ Returned /\ last.n >= 2
    /\ last.token > last.before
    /\ Commits(commitCfg)

\* C4 as stated, for a store that is configured to commit: a batch whose
\* every event's handler returns true gets exactly one put, and afterwards
\* the stored value is the batch's token.
C4_AllTrueStoresToken ==
    Commits(commitCfg) /\ last.ok /\ last.n >= 1 =>
        last.puts = 1 /\ last.after = last.token

\* C4 amended: for a batch of at least one event whose every handler returns
\* true, put is called exactly once; the stored value afterwards is the
\* greater of the batch's token and the value before when the put returned
\* and was committed, and the value before otherwise.
C4_AllTrueOnePut ==
    last.ok /\ last.n >= 1 =>
        /\ last.puts = 1
        /\ last.after = IF ~last.stored THEN last.before
                        ELSE IF last.token > last.before THEN last.token
                        ELSE last.before

C4_Witness ==
    /\ last.ok /\ last.n >= 2 /\ last.stored
    /\ last.after = last.token /\ last.before # last.token

(* ======================== flow control: C5 - C7 ======================== *)
\* C5: at no point are two fetch requests outstanding without a full batch
\* delivery (pending_num_requested = 0) between them.
C5_OneRequestInFlight == inflight <= 1

C5_Witness ==
    /\ inflight = 1
    /\ callNo >= 2
    /\ Returned /\ last.pending # 0

\* the step in which process() passes lines 97-103 for the batch in hand
HeadStep == pc = "process" /\ pc' # "process"

\* C6: a batch with pending_num_requested = 0 handed to process(), with or
\* without events, releases the flow-control permit.
C6_FullBatchReleasesPermit ==
    [][HeadStep /\ batch.pending = 0 => semaphore' = semaphore + 1]_vars

\* C7: the permit count is 0 or 1 in every reachable state.
C7_PermitBinary == semaphore \in {0, 1}

C7_Witness ==
    /\ semaphore = 0
    /\ callNo >= 2
    /\ Returned /\ last.pending = 0

(* ========================= reconnects: C8 - C10 ======================== *)
\* C8 as stated: a Subscribe call made after DEADLINE_EXCEEDED on a call
\* that delivered no event carries the mode and token of that call.
C8_ReconnectSameToken ==
    callNo >= 2 /\ cur.via = "deadline" /\ prev.events = 0 =>
        cur.mode = prev.mode /\ cur.token = prev.token

\* C8 amended: DEADLINE_EXCEEDED is caught in listen() and not raised out of
\* it, and the Subscribe call made after it carries the same mode and the
\* token read from the checkpoint store after the timeout.
C8_ReconnectFreshToken ==
    [][ /\ (pc = "recv" /\ open /\ ~open' /\ via' = "deadline" => pc' = "heartbeat")
        /\ (pc = "subscribe" /\ pc' = "recv" /\ via = "deadline" /\ callNo >= 1 =>
              /\ cur'.mode = cur.mode
              /\ cur'.read
              /\ cur'.token = get_latest_replay_id(rows)) ]_vars

C8_Witness ==
    /\ callNo >= 2 /\ cur.via = "deadline" /\ prev.events = 0
    /\ cur.token # prev.token

\* C9: on a stream opened by a reconnect the request producer gets the
\* permit and writes a fetch request; there is no open stream whose producer
\* is shut out of the permit before its first request.
C9_ReconnectCanFetch ==
    open /\ callNo >= 2 /\ SentOn(callNo) = {} => CanAcquire(semaphore)

\* C10: every Subscribe call follows a heartbeat write (when a heartbeat
\* store is configured) and a fresh read of the committed token, and sends
\* the token just read.
C10_SubscribeAfterHeartbeatAndRead ==
    callNo >= 1 =>
        /\ hbConfigured => cur.hb
        /\ cur.read
        /\ cur.token = cur.stored

(* ====================== mode and token: C11 - C13 ====================== *)
\* C11: for a listener started in CUSTOM mode, every Subscribe call that
\* listen() makes while the store holds a committed token is made in mode
\* CUSTOM with that token.
C11_CustomResumesFromStore ==
    startMode = "CUSTOM" /\ callNo >= 1 /\ cur.read /\ cur.stored # NoToken =>
        cur.mode = "CUSTOM" /\ cur.token = cur.stored

\* C12: when listen() is called in CUSTOM mode without a token and the store
\* holds none, mode selection goes on to authentication with mode EARLIEST,
\* the mode is not changed afterwards, and every Subscribe call uses it.
C12_ColdStartEarliest ==
    [][ /\ (pc = "select_mode" /\ startMode = "CUSTOM" /\ callerToken = NoToken
              /\ rows = {} => mode' = "EARLIEST" /\ pc' = "auth")
        /\ (pc # "select_mode" => mode' = mode)
        /\ (pc = "subscribe" /\ pc' = "recv" => cur'.mode = mode) ]_vars

C12_Witness ==
    /\ startMode = "CUSTOM" /\ callerToken = NoToken
    /\ callNo >= 2 /\ prev.stored = NoToken
    /\ prev.mode = "EARLIEST" /\ cur.mode = "EARLIEST"

\* C13: every fetch request written with mode CUSTOM carries a replay id.
C13_CustomCarriesToken ==
    \A i \in DOMAIN sent : sent[i].mode = "CUSTOM" => sent[i].token # NoToken

(* ==================== the loop of listen(): C14, C15 =================== *)
\* C14: once authentication has succeeded, no exception leaves listen().
C14_NeverRaisesAfterAuth == authCount >= 1 => pc # "raised"

\* C15: after a transport failure other than DEADLINE_EXCEEDED the listener
\* goes through heartbeat and token read to the next Subscribe call; no
\* exception leaves listen() on the way.
C15_RetryAfterTransportError ==
    [][ /\ (pc = "recv" /\ open /\ ~open' /\ via' = "other" => pc' = "heartbeat")
        /\ (pc \in {"heartbeat", "get_token"} /\ via = "other" => pc' # "raised")
      ]_vars

(* ================== the loop of process(): C16 - C20 =================== *)
\* a step of the listener thread inside process(), after lines 97-103
LoopStep == pc = "loop" /\ (idx' # idx \/ pc' # pc)

\* C16: a failed event does not stop the loop: while events remain, the next
\* step takes the next event and records its outcome; `success`, once
\* false, stays false to the end of the batch, and the batch ends without a
\* put and with the store as it was.
C16_NoEarlyAbort ==
    [][ LoopStep /\ ~success =>
          /\ rows' = rows
          /\ IF idx <= Len(batch.events)
               THEN /\ pc' = "loop" /\ idx' = idx + 1
                    /\ Len(outs') = idx /\ ~success'
               ELSE /\ Len(outs) = Len(batch.events)
                    /\ last'.puts = 0 /\ ~last'.ok ]_vars

C16_Witness ==
    /\ pc = "loop" /\ Len(batch.events) >= 2
    /\ Len(outs) = Len(batch.events)
    /\ outs[1] # "true" /\ outs[2] = "true"
    /\ ~success

\* place of an event in the batch being processed
IndexOf(e) == CHOOSE k \in DOMAIN batch.events : batch.events[k] = e

\* C17: the handler invocations of a batch are events of that batch, in the
\* order of the batch, none of them twice; an event is skipped only when
\* its decoding raised.
C17_DispatchInDeliveryOrder ==
    pc = "loop" =>
        /\ Range(invoked) \subseteq Range(batch.events)
        /\ \A i, j \in DOMAIN invoked :
              i < j => IndexOf(invoked[i]) < IndexOf(invoked[j])
        /\ Len(invoked) = Cardinality({ k \in DOMAIN outs : Dispatches(outs[k]) })

C17_Witness ==
    /\ pc = "loop" /\ Len(batch.events) >= 2
    /\ Len(invoked) >= 2

\* the step in which process() calls save_replay_id
PutStep == rows' # rows \/ (pc = "loop" /\ pc' # "loop" /\ last'.puts = 1)

\* C18: save_replay_id is called when every event of the batch has its
\* outcome, and when it has returned no event of a later batch has been
\* taken up: the listener is back at receiving.
C18_PutAfterAllResolved ==
    [][ PutStep =>
          /\ pc = "loop"
          /\ Len(outs) = Len(batch.events)
          /\ last'.n = Len(outs) /\ last'.token = batch.token
          /\ pc' = "recv" /\ batch' = NoBatch /\ invoked' = << >> ]_vars

C18_Witness ==
    /\ nBatches >= 2 /\ pc = "loop" /\ Len(invoked) >= 1
    /\ last.puts = 1 /\ last.n >= 2 /\ last.stored

\* the step that ends a batch whose events all succeeded
SaveStep == pc = "loop" /\ LoopDone(batch, idx) /\ success /\ pc' # pc

\* C19: when the put of a batch did not store the token, process() returns
\* normally after that one put, the store is as it was, and the listener is
\* back at receiving.
C19_PutFailureSwallowed ==
    [][ SaveStep /\ ~last'.stored =>
          /\ pc' = "recv"
          /\ last'.ret = "returned" /\ last'.puts = 1
          /\ rows' = rows /\ last'.after = last'.before ]_vars

C19_Witness ==
    /\ Commits(commitCfg)
    /\ last.puts = 1 /\ ~last.stored /\ last.n >= 1
    /\ nBatches >= 2 /\ pc = "loop"

\* C20: no outcome of an event makes an exception leave process() for a
\* batch with at least one event; a failed batch ends returned, without put.
C20_ContentFailuresStayInside ==
    [][ /\ (pc \in {"process", "loop"} /\ Len(batch.events) >= 1 => pc' # "raised")
        /\ (LoopStep /\ pc' # "loop" /\ ~success =>
              last'.ret = "returned" /\ last'.puts = 0 /\ pc' = "recv") ]_vars

C20_Witness ==
    /\ last.ret = "returned" /\ ~last.ok /\ last.n >= 2
    /\ pc = "recv" /\ open

(* ================== batches and the schema cache: C21 =================== *)
\* C21: a schema-fetch or decode failure counts against its own batch only:
\* `success` starts true for every batch, a batch whose events all succeeded
\* ends with the put whatever happened in earlier batches, and a schema
\* fetch that failed leaves the schema cache as it was.
C21_FailureFailsOnlyItsBatch ==
    [][ /\ (LoopStep /\ Len(outs') > Len(outs) /\ outs'[Len(outs')] = "schema_exc"
              => json_schema_dict' = json_schema_dict)
        /\ (pc = "process" /\ pc' = "loop" => success')
        /\ (LoopStep /\ pc' # "loop" /\ AllTrue(outs)
              => last'.puts = 1 /\ last'.ok) ]_vars

C21_Witness ==
    /\ nBatches >= 2 /\ pc = "recv"
    /\ last.ok /\ last.n >= 1 /\ last.puts = 1
    /\ delivered \ handled # {}

(* ====================== producers and permit: C27 ====================== *)
\* C27: no request producer of an earlier Subscribe call is still waiting
\* for the permit once a newer call has been made.
C27_ProducerExclusive ==
    \A c \in 1..MaxCalls : prod[c] = "waiting" => c = callNo

(* ======================= authentication: C29, C30 ====================== *)
\* C29: when auth() fails at startup, listen() has raised with no heartbeat
\* written and no Subscribe call made, and the client's metadata and access
\* token are unset.
C29_AuthFailureStopsStartup ==
    pc = "raised" /\ authCount = 0 =>
        /\ callNo = 0 /\ ~hbFresh /\ ~readFresh
        /\ client.metadata = NoMetadata /\ client.session_id = Unset

C29_Witness ==
    /\ pc = "raised" /\ authCount = 0
    /\ hbConfigured /\ client.session # Unset

\* C30: auth() is called from one place only, after mode selection; no later
\* step changes the client's credentials, and every Subscribe call is made
\* after exactly one successful auth().
C30_AuthOncePerListen ==
    [][ /\ (pc' = "auth" => pc \in {"select_mode", "auth"})
        /\ (pc # "auth" => client' = client /\ authCount' = authCount)
        /\ (pc = "subscribe" /\ pc' = "recv" =>
              authCount = 1 /\ client.metadata # NoMetadata) ]_vars

C30_Witness ==
    /\ callNo >= 2 /\ cur.via = "other" /\ open
    /\ authCount = 1 /\ client.metadata # NoMetadata

(* ===================== the checkpoint store: C22 ======================= *)
\* C22: with a store that commits, get(topic) returns the replay id of the
\* latest create() for that topic that returned, and nothing when there was
\* none, whatever was put for other topics.
C22_GetReturnsLatestPut ==
    [][ Commits(commitCfg) /\ got' # got =>
          got'.value = lastPut[got'.topic] ]_vars

(* ====================== the schema cache: C23, C28 ===================== *)
\* the cache holds a definition for the id
Populated(id) ==
    IF id \in DOMAIN json_schema_dict THEN json_schema_dict[id] # NoSchema ELSE FALSE

\* C23: an entry that holds a definition keeps it for good; a call that
\* finds the entry goes to its return without an RPC and returns that
\* definition; an RPC is made only by a call that found no entry.
C23_CacheFetchesOnMissOnly ==
    [][ /\ \A id \in SchemaIds :
              Populated(id) =>
                  id \in DOMAIN json_schema_dict'
                  /\ json_schema_dict'[id] = json_schema_dict[id]
        /\ \A t \in Threads :
              /\ (thr[t].pc = "check" /\ thr'[t].pc # "check"
                    /\ Populated(thr[t].id)
                  => thr'[t].pc = "return" /\ rpcs' = rpcs)
              /\ (thr[t].pc = "return" /\ thr'[t].pc = "idle"
                  => thr'[t].ret = GetSchema(thr[t].id))
              /\ (thr[t].pc # "rpc" /\ thr'[t].pc = "rpc"
                  => ~Populated(thr[t].id)) ]_vars

C23_Witness ==
    \E t \in Threads :
        /\ thr[t].pc = "idle" /\ thr[t].hit
        /\ thr[t].ret = GetSchema(thr[t].id)
        /\ rpcs[thr[t].id] = 1

\* C28: with several threads calling get_schema_json for the same uncached
\* id, the entry of that id is assigned at most once.
C28_CachePopulatedOnce == \A id \in SchemaIds : writes[id] <= 1

(* ======================= auth() idempotent: C26 ======================== *)
\* C26: an auth() that gets the response the auth() before it got leaves
\* the client as it was: the session of the first call, and metadata made of
\* the response's access token and instance url and the tenant id.
C26_AuthIdempotent ==
    [][ authCalls' = authCalls + 1 /\ resp'.status = "OK" =>
          /\ client'.session = 1
          /\ client'.metadata =
                << resp'.access_token, resp'.instance_url, client.tenant_id >>
          /\ (resp = resp' => client' = client) ]_vars

C26_Witness ==
    /\ authCalls >= 2 /\ resp.status = "OK" /\ prevResp = resp
    /\ client.session = 1
    /\ client.metadata = << resp.access_token, resp.instance_url, client.tenant_id >>

(* ========================= decoding: C24, C25 ========================== *)
\* bit i of a bitmap
Bit(n, i) == (n \div 2^i) % 2 = 1

\* C24: for a message with a change header, the changed fields are the
\* fields i of the schema's declared order whose bit i is set in the
\* header's changedFields; bits {0,2} against [A,B,C,D] give {A, C}.
C24_BitmapSelectsFields ==
    dec.pc # "new" /\ msg.header =>
        /\ \A i \in 0..(Len(msg.schema) - 1) :
              msg.schema[i + 1] \in dec.changed <=> Bit(msg.changedFields, i)
        /\ dec.changed \subseteq Range(msg.schema)
        /\ (msg.schema = << "A", "B", "C", "D" >> /\ msg.changedFields = 5
              => dec.changed = {"A", "C"})

C24_Witness ==
    /\ dec.pc = "decoded" /\ msg.header
    /\ msg.schema = << "A", "B", "C", "D" >> /\ msg.changedFields = 5
    /\ msg.nulledFields = 1

\* C25: a message without change header is decoded into an event that
\* carries its field values, and the handler deals with that event as with
\* any other.
C25_HeaderlessEventDispatched ==
    dec.pc = "handled" /\ ~msg.header =>
        /\ dec.event # NoEvent
        /\ dec.event.portfolio = Range(msg.schema)
        /\ dec.out \in {"true", "false"}

(* ========================== keepalives: C31 ============================ *)
\* C31: a batch without events whose pendingRequestedCount is above 0 is
\* dealt with as a batch whose events all succeeded: process() returns,
\* counts it as successful and calls put once with the batch's token, with
\* the effect on the stored value a put of that token has.
C31_KeepalivePersistsToken ==
    last.ret # "none" /\ last.n = 0 /\ last.pending > 0 =>
        /\ last.ret = "returned" /\ last.ok
        /\ last.puts = 1
        /\ last.after = IF ~last.stored THEN last.before
                        ELSE IF last.token > last.before THEN last.token
                        ELSE last.before

C31_Witness ==
    /\ last.ret = "returned" /\ last.n = 0 /\ last.pending > 0
    /\ last.puts = 1 /\ last.stored
    /\ last.after = last.token /\ last.before # last.token

(* ==================== requests of one call: C32 ======================== *)
\* C32: every fetch request written on a Subscribe call carries the topic,
\* mode, token and batch size that call was started with; requests of one
\* call are all alike, whatever token has been committed in between.
C32_RequestsCarryCallArguments ==
    /\ \A i \in DOMAIN requests :
          /\ requests[i].req.topic_name = streams[requests[i].call].args.topic
          /\ requests[i].req.replay_preset = streams[requests[i].call].args.replay_type
          /\ requests[i].req.replay_id = streams[requests[i].call].args.replay_id
          /\ requests[i].req.num_requested = streams[requests[i].call].args.num_requested
    /\ \A i, j \in DOMAIN requests :
          requests[i].call = requests[j].call => requests[i].req = requests[j].req

C32_Witness ==
    /\ Len(requests) >= 2
    /\ requests[1].call = requests[2].call
    /\ requests[1].stored < requests[2].stored
    /\ requests[2].req.replay_preset = "CUSTOM"
    /\ requests[2].req.replay_id # requests[2].stored
    /\ requests[2].req.replay_id # NoToken

(* ==================== acknowledged puts: C33 ========================== *)
\* C33: whatever the commit setting, the replay id of a create() that
\* returned is a committed row of its topic, and get() of that topic finds
\* a replay id.
C33_ReturnedPutIsCommitted ==
    \A tp \in Topics :
        lastPut[tp] # NoToken =>
            /\ << tp, lastPut[tp] >> \in table
            /\ get(table, tp) # NoToken

(* ======================= the event made: C34 =========================== *)
\* C34: a message with a change header is made into one PortfolioCreatedEvent
\* that carries all its fields but the header, for every changeType, and
\* that event is what the handler is called with.
C34_AlwaysCreatedEvent ==
    /\ dec.pc # "new" /\ msg.header =>
          dec.event = [cn |-> "PortfolioCreatedEvent",
                       portfolio |-> Range(msg.schema)]
    /\ dec.pc = "handled" /\ msg.header => dec.out \in {"true", "false"}

C34_Witness ==
    /\ dec.pc = "handled" /\ msg.header
    /\ msg.changeType = "DELETE"
    /\ Len(msg.schema) >= 2
    /\ dec.changed # Range(msg.schema)
    /\ dec.event.cn = "PortfolioCreatedEvent"

=============================================================================
